---- MODULE Spec2Model ----
(***************************************************************************)
(* A model of the quadruped leg controller: the gait step planner          *)
(* (StepPlanner: phase state machine, foot-drop accumulator, step          *)
(* endpoint projection, origin latch) and the leg kinematics solver        *)
(* (Kinematics: inverse kinematics, clamping, actuator encoding).          *)
(*                                                                         *)
(* Real-valued quantities are kept in fixed point: lengths and positions   *)
(* handled by the interpolators in 1/FP units, radians and cosines in      *)
(* 1/TrigScale units.  millis() is the variable now; an unsigned 32-bit    *)
(* difference (millis() - _previousUpdateTime) is exact modulo 2^32, so    *)
(* _previousUpdateTime is kept as the representative in -1..MaxTime (the   *)
(* value -1 stands for 2^32 - 1, what millis() - 1 gives at millis() = 0). *)
(***************************************************************************)
EXTENDS Integers, Sequences, FiniteSets, TLC

\* ------------------------------------------------------------------------
\* Bounds of the model
\* ------------------------------------------------------------------------

\* The clock runs from 0 to MaxTime milliseconds.
MaxTime == 8
\* At most MaxRetargets calls of setStepEndpoint with a non-zero control vector.
MaxRetargets == 1
\* The clock of the solver's interpolators advances MaxTimeKin times
MaxTimeKin == 1
\* ... in steps of KinStep milliseconds.
KinStep == 150
\* At most MaxMoves calls of setFootEndpoint.
MaxMoves == 2
\* The clock runs from 0 to MaxTimeGait milliseconds where the gait is chosen.
MaxTimeGait == 6

\* ------------------------------------------------------------------------
\* Constants of StepPlanner.h (the header is not among the source files)
\* ------------------------------------------------------------------------

TIME_TO_UPDATE == 2
GAIT_POSITION_INCREMENT == 35

\* Fixed-point resolution of the float values (endpoints, interpolators).
FP == 100
\* Fixed-point resolution of radians and of cosines.
TrigScale == 10000
\* PI in 1/TrigScale units.
PI_T == 31416

LegIDs == {"LEG_1", "LEG_2", "LEG_3", "LEG_4"}
LegModes == {"STANDING", "FIRST_STEP_ARC", "FIRST_STEP_DRAW_BACK",
             "ACTIVE_WALKING_ARC", "ACTIVE_WALKING_DRAW_BACK"}
RobotModes == {"WALKING", "STATIC_STANDING"}
GaitTypes == {"TROT"}
DEFAULT_GAIT == "TROT"

\* The arguments setGait is called with when the choice of gait is under
\* test: TROT and one more gait type.
GaitInputs == {"TROT", "GAIT_2"}

\* _gaits[TROT], set by init (lines 16-17); no code among the source files
\* sets the profile of another gait type.
Gaits ==
  [g \in GaitInputs |->
     IF g = "TROT" THEN [amplitude |-> 50, periodHalf |-> 140]
     ELSE [amplitude |-> 30, periodHalf |-> 280]]

\* ------------------------------------------------------------------------
\* Constants of Kinematics.h (the header is not among the source files)
\* ------------------------------------------------------------------------

LIMB_1 == 25
LIMB_2 == 50
LIMB_3 == 50
SHOULDER_FOOT_MIN == 20
SHOULDER_FOOT_MAX == 95
M1_OFFSET == 90
M2_OFFSET == 90
M3_OFFSET == 90
M1_MIN == 45
M1_MAX == 135
M2_MIN == 10
M2_MAX == 170
M3_MIN == 20
M3_MAX == 160
DEGREES_TO_MICROS == 10
MAX_SPEED_INVERSE == 2

\* Angles before rounding are kept in 1/AScale degrees.
AScale == 100
\* The float NaN.
NaN == -99999999

\* Inputs the environment draws from.
Heights == {120}
Controls == {<<0, 0>>, <<50, 0>>, <<-50, -50>>, <<50, 20>>}
\* Foot positions <<x, y, z>>: two inside the envelope, one outside it, and
\* two with z = 0.
FootPoints == {<<0, 0, 60>>, <<40, 0, 60>>, <<-300, 0, 60>>, <<0, 30, 0>>,
               <<0, 0, 0>>}
\* Calibration offsets of the three motors (uint16_t).
Calibs == {<<10, 20, 300>>}
\* Values an uninitialised uint16_t member can hold.
Indeterminate == {0, 400}
\* What lrint gives for NaN (unspecified) and what the conversion of NaN to
\* int16_t gives (undefined): fixed by the build.
LrintOfNaN == {-1000, 0}
Int16OfNaN == {0, -300}

VARIABLES
  now,                 \* millis()
  legID,               \* _legID
  legMode,             \* _legMode
  gaitType,            \* _gaitType
  robotHeight,         \* _robotHeight
  footXYDrop,          \* _footXYDrop
  previousUpdateTime,  \* _previousUpdateTime
  dynamicFootPosition, \* dynamicFootPosition: [x, y, z]; x, y in 1/FP units
  stepEndpoint,        \* _stepEndpoint: [x, y] in 1/FP units
  wasAtOrigin,         \* _wasAtOrigin
  footPosX,            \* footPosX interpolator
  footPosY,            \* footPosY interpolator
  ret,                 \* what the last call returned ("none" for a void call)
  retargets,           \* calls of setStepEndpoint with a non-zero vector so far
  \* History of the calls (read by the properties only, never by the operations)
  h_lastControl,       \* the last setStepEndpoint argument: none, zero, nonzero
  h_walkCommanded,     \* update(WALKING) was called since the last init/reset
  h_walkSinceStand,    \* ... since the last init/reset/setStepEndpoint(0,0)
  h_trueSinceZero,     \* footAtOrigin returned true and the drop has stayed 0
  h_armed,             \* no true return since a poll saw drop # 0 or a reset
  h_gaitRefused,       \* the last setGait asked for another gait and was ignored
  \* Kinematics
  constructed,         \* the constructor has run
  motor1, motor2, motor3, \* [angleDegrees, angleMicros, dynamicDegrees,
                       \*  dynamicMicros, previousDegrees, calibOffset]
  dynamicX, dynamicY, dynamicZ, \* the position interpolators
  lrintNaN,            \* lrint(NaN) of this build
  int16NaN,            \* (int16_t)NaN of this build
  halted,              \* _applyConstraints reached while(1)
  moves,               \* calls of setFootEndpoint so far
  h_solved,            \* the angles the last solveFootPosition wrote
  h_solvedFor,         \* ... and the position it solved
  h_encoded,           \* the <<joint, degrees>> the last call encoded
  h_goIssued,          \* the last setFootEndpoint commanded the interpolators
  h_lastEndpoint,      \* the argument of the last setFootEndpoint
  h_repeated,          \* ... was also the argument of the one before
  \* A second planner, of the other first-step group
  peer,                \* [legID, legMode, footXYDrop, previousUpdateTime]
  \* The caller that gives update once every millisecond
  sync                 \* [calledAt: the clock value of its last update call,
                       \*  zeroAt: ... of the last one that left the drop at 0]

plannerVars == <<legID, legMode, gaitType, robotHeight, footXYDrop,
                 previousUpdateTime, dynamicFootPosition, stepEndpoint,
                 wasAtOrigin, footPosX, footPosY>>

histVars == <<h_lastControl, h_walkCommanded, h_walkSinceStand,
              h_trueSinceZero, h_armed, h_gaitRefused>>

kinVars == <<constructed, motor1, motor2, motor3, dynamicX, dynamicY, dynamicZ,
             lrintNaN, int16NaN, halted, moves, h_solved, h_solvedFor,
             h_encoded, h_goIssued, h_lastEndpoint, h_repeated>>

plannerAll == <<plannerVars, ret, retargets, histVars>>

\* What the operations of the one planner leave alone.
idleVars == <<kinVars, peer, sync>>

vars == <<now, plannerAll, kinVars, peer, sync>>

\* ------------------------------------------------------------------------
\* Arithmetic helpers
\* ------------------------------------------------------------------------

Abs(n) == IF n < 0 THEN -n ELSE n

\* C integer division: truncation toward zero.
TDiv(a, b) ==
  IF (a >= 0) = (b > 0) THEN Abs(a) \div Abs(b) ELSE -(Abs(a) \div Abs(b))

\* lrint(n/d) for d > 0: round to nearest, ties to even.
RoundDiv(n, d) ==
  LET q == Abs(n) \div d
      r == Abs(n) % d
      m == IF 2 * r > d \/ (2 * r = d /\ q % 2 = 1) THEN q + 1 ELSE q
  IN IF n < 0 THEN -m ELSE m

\* floor(sqrt(n)), by bisection between lo and hi (lo * lo <= n < hi * hi).
RECURSIVE ISqrtIn(_, _, _)
ISqrtIn(n, lo, hi) ==
  IF hi - lo <= 1 THEN lo
  ELSE LET mid == (lo + hi) \div 2
       IN IF mid * mid <= n THEN ISqrtIn(n, mid, hi) ELSE ISqrtIn(n, lo, mid)

ISqrt(n) == ISqrtIn(n, 0, 46340)

\* cos(x) for |x| <= PI/2 (x and the result in 1/TrigScale units), by the
\* Taylor series to the x^10 term.
CosT(x) ==
  LET x2 == (x * x) \div TrigScale
      t1 == (TrigScale * x2) \div (2 * TrigScale)
      t2 == (t1 * x2) \div (12 * TrigScale)
      t3 == (t2 * x2) \div (30 * TrigScale)
      t4 == (t3 * x2) \div (56 * TrigScale)
      t5 == (t4 * x2) \div (90 * TrigScale)
  IN TrigScale - t1 + t2 - t3 + t4 - t5

\* ------------------------------------------------------------------------
\* The value interpolator (external collaborator: go / update)
\* ------------------------------------------------------------------------

\* go(target): snap to the target, no timed transition.
InterpSnap(v) == [val |-> v, A |-> v, B |-> v, dur |-> 0, t0 |-> 0]

\* go(target, duration, LINEAR, FORTHANDBACK) at time t: from the current
\* value to the target and back, repeatedly.
InterpGo(itp, target, dur, t) ==
  IF dur = 0 THEN InterpSnap(target)
  ELSE [val |-> itp.val, A |-> itp.val, B |-> target, dur |-> dur, t0 |-> t]

\* The value for time t.
InterpSample(itp, t) ==
  IF itp.dur = 0 THEN itp.val
  ELSE LET c == (t - itp.t0) % (2 * itp.dur)
           p == IF c <= itp.dur THEN c ELSE 2 * itp.dur - c
       IN itp.A + TDiv((itp.B - itp.A) * p, itp.dur)

\* update() at time t: the interpolator after the call; .val is returned.
InterpUpdate(itp, t) == [itp EXCEPT !.val = InterpSample(itp, t)]

\* ------------------------------------------------------------------------
\* Kinematics: float arithmetic
\* ------------------------------------------------------------------------

IsNaN(a) == a = NaN
FAdd(a, b) == IF IsNaN(a) \/ IsNaN(b) THEN NaN ELSE a + b
FSub(a, b) == IF IsNaN(a) \/ IsNaN(b) THEN NaN ELSE a - b
FAbs(a) == IF IsNaN(a) THEN NaN ELSE Abs(a)
FNeg(a) == IF IsNaN(a) THEN NaN ELSE -a
FHalf(a) == IF IsNaN(a) THEN NaN ELSE TDiv(a, 2)

\* cos of t/AScale degrees, 0 <= t <= 180 * AScale, in 1/TrigScale units.
CosDeg(t) ==
  IF t <= 90 * AScale THEN CosT((PI_T * t) \div (180 * AScale))
  ELSE -CosT((PI_T * (180 * AScale - t)) \div (180 * AScale))

\* num/den (|num| <= |den|, den # 0) in 1/TrigScale units; large operands are
\* scaled down first so that the product stays within 32 bits.
Ratio(num, den) ==
  LET k == (Abs(den) \div 200000) + 1
  IN TDiv(TDiv(num, k) * TrigScale, TDiv(den, k))

\* The least angle in lo..hi (1/AScale degrees) whose cosine is at most c,
\* by bisection: cos falls from 0 to 180 degrees.
RECURSIVE AcosIn(_, _, _)
AcosIn(c, lo, hi) ==
  IF lo >= hi THEN lo
  ELSE LET mid == (lo + hi) \div 2
       IN IF CosDeg(mid) <= c
          THEN AcosIn(c, lo, mid) ELSE AcosIn(c, mid + 1, hi)

\* acos(num/den) in 1/AScale degrees; NaN outside [-1, 1] and for 0/0, x/0.
AcosDeg(num, den) ==
  IF den = 0 \/ Abs(num) > Abs(den) THEN NaN
  ELSE AcosIn(Ratio(num, den), 0, 180 * AScale)

\* The least angle in lo..hi with b * sin >= a * cos (a, b >= 0).
RECURSIVE AtanIn(_, _, _, _)
AtanIn(a, b, lo, hi) ==
  IF lo >= hi THEN lo
  ELSE LET mid == (lo + hi) \div 2
       IN IF b * CosDeg(90 * AScale - mid) >= a * CosDeg(mid)
          THEN AtanIn(a, b, lo, mid) ELSE AtanIn(a, b, mid + 1, hi)

\* |atan(a/b)| in 1/AScale degrees for the floats a, b: 90 degrees for x/0
\* (atan of an infinity), NaN for 0/0.
AtanDeg(a, b) ==
  IF a = 0 /\ b = 0 THEN NaN
  ELSE IF b = 0 THEN 90 * AScale
  ELSE AtanIn(Abs(a), Abs(b), 0, 90 * AScale)

\* lrint of an angle kept in 1/AScale degrees.
LrintDeg(a, ofNaN) == IF IsNaN(a) THEN ofNaN ELSE RoundDiv(a, AScale)

\* The conversion of a float length (1/FP units) to int16_t.
ToInt16(f, ofNaN) == IF IsNaN(f) THEN ofNaN ELSE TDiv(f, FP)

\* ------------------------------------------------------------------------
\* Kinematics: the solver
\* ------------------------------------------------------------------------

\* solveYMove: [demandAngle1, yPlaneZOutput]
solveYMove(inputY, inputZ) ==
  LET sq == inputZ * inputZ + inputY * inputY
      demandFtShldrLength == ISqrt(sq * FP * FP)
      yPlaneZOutput == IF sq < LIMB_1 * LIMB_1 THEN NaN
                       ELSE ISqrt((sq - LIMB_1 * LIMB_1) * FP * FP)
      theta == AtanDeg(inputY, inputZ)
      alpha == AcosDeg(LIMB_1 * FP, demandFtShldrLength)
      a == IF inputY >= 0
           THEN FAbs(FSub(90 * AScale, FAdd(theta, alpha)))
           ELSE FAbs(FSub(90 * AScale, FSub(alpha, theta)))
  IN [demandAngle1 |-> IF inputY < LIMB_1 THEN FNeg(a) ELSE a,
      yPlaneZOutput |-> yPlaneZOutput]

\* solveXMove: [demandAngle2, demandFtShldrLength]
solveXMove(inputX, inputZ0) ==
  LET inputZ == IF inputZ0 = 0 THEN 1 ELSE inputZ0
      a == AtanDeg(inputX, inputZ)
  IN [demandAngle2 |-> IF inputX > 0 THEN FNeg(a) ELSE a,
      demandFtShldrLength |->
        ISqrt((inputZ * inputZ + inputX * inputX) * FP * FP)]

\* The reach length clamped to [SHOULDER_FOOT_MIN, SHOULDER_FOOT_MAX]
\* (lines 80-84).
ClampedReach(demandFtShldr) ==
  IF demandFtShldr > SHOULDER_FOOT_MAX * FP THEN SHOULDER_FOOT_MAX * FP
  ELSE IF demandFtShldr < SHOULDER_FOOT_MIN * FP THEN SHOULDER_FOOT_MIN * FP
  ELSE demandFtShldr

\* The length the Law of Cosines is given (line 87): demandFtShldr, the
\* argument, not the clamped _demandFtShldrLength.
LawOfCosinesReach(demandFtShldr) == demandFtShldr

\* solveFtShldrLength: [demandAngle2, demandAngle3], added to the accumulators
solveFtShldrLength(demandFtShldr, demandAngle2, demandAngle3) ==
  LET d == LawOfCosinesReach(demandFtShldr)
      a3 == AcosDeg((d * d) \div FP - (LIMB_2 * LIMB_2 + LIMB_3 * LIMB_3) * FP,
                    -2 * LIMB_2 * LIMB_3 * FP)
      a2 == FHalf(FSub(180 * AScale, a3))
  IN [demandAngle2 |-> FAdd(demandAngle2, a2),
      demandAngle3 |-> FAdd(demandAngle3, a3)]

\* _applyConstraints without the upper limit of motor 3.
applyConstraints_NoUpper3(motor, demandAngle) ==
  CASE motor = 1 -> IF demandAngle > M1_MAX THEN M1_MAX
                    ELSE IF demandAngle < M1_MIN THEN M1_MIN ELSE demandAngle
    [] motor = 2 -> IF demandAngle > M2_MAX THEN M2_MAX
                    ELSE IF demandAngle < M2_MIN THEN M2_MIN ELSE demandAngle
    [] motor = 3 -> IF demandAngle < M3_MIN THEN M3_MIN ELSE demandAngle
    [] OTHER -> demandAngle

\* _applyConstraints(motor, demandAngle); any other motor halts (HaltsOn).
applyConstraints(motor, demandAngle) ==
  CASE motor = 1 -> IF demandAngle > M1_MAX THEN M1_MAX
                    ELSE IF demandAngle < M1_MIN THEN M1_MIN ELSE demandAngle
    [] motor = 2 -> IF demandAngle > M2_MAX THEN M2_MAX
                    ELSE IF demandAngle < M2_MIN THEN M2_MIN ELSE demandAngle
    [] motor = 3 -> IF demandAngle > M3_MAX THEN M3_MAX
                    ELSE IF demandAngle < M3_MIN THEN M3_MIN ELSE demandAngle
    [] OTHER -> demandAngle

\* The else branch of _applyConstraints (lines 208-213): while(1).
HaltsOn(motor) == motor \notin {1, 2, 3}

\* ClampCalls with the third call naming a motor that does not exist.
ClampCalls_Miswired == <<1, 2, 4>>

\* The motor arguments solveFootPosition passes (lines 159-161).
ClampCalls == <<1, 2, 3>>

\* The conversion of a clamped float angle to uint16_t.
ToUint16(a) == a % 65536

\* solveFootPosition: the three angles written through the pointers.
solveFootPosition(inputX, inputY, inputZ) ==
  LET ym == solveYMove(inputY, inputZ)
      xm == solveXMove(inputX, ToInt16(ym.yPlaneZOutput, int16NaN))
      fs == solveFtShldrLength(xm.demandFtShldrLength, xm.demandAngle2, 0)
      demandAngle1 == LrintDeg(ym.demandAngle1, lrintNaN) + M1_OFFSET
      demandAngle2 == LrintDeg(fs.demandAngle2, lrintNaN) + M2_OFFSET
      demandAngle3 == (M3_OFFSET - LrintDeg(fs.demandAngle3, lrintNaN))
                        + M3_OFFSET
  IN <<ToUint16(applyConstraints(ClampCalls[1], demandAngle1)),
       ToUint16(applyConstraints(ClampCalls[2], demandAngle2)),
       ToUint16(applyConstraints(ClampCalls[3], demandAngle3))>>

SolveHalts == \E i \in 1..3 : HaltsOn(ClampCalls[i])

\* _degreesToMicros(uint8_t inputDegrees, uint8_t calibOffset): both
\* arguments are converted to uint8_t.
degreesToMicros(inputDegrees, calibOffset) ==
  (DEGREES_TO_MICROS * (inputDegrees % 256) + 500 + (calibOffset % 256)) % 65536

\* ------------------------------------------------------------------------
\* StepPlanner
\* ------------------------------------------------------------------------

PeriodHalf == Gaits[gaitType].periodHalf
Amplitude == Gaits[gaitType].amplitude

\* getStepHeight(footXYDropL, legMode)
getStepHeight(footXYDropL, mode) ==
  CASE mode = "FIRST_STEP_ARC" ->
         robotHeight
           - RoundDiv(Amplitude
                        * CosT(TDiv(PI_T * (4 * footXYDropL - PeriodHalf),
                                    2 * PeriodHalf)),
                      2 * TrigScale)
    [] mode = "ACTIVE_WALKING_ARC" ->
         robotHeight
           - RoundDiv(Amplitude * CosT(TDiv(PI_T * footXYDropL, PeriodHalf)),
                      TrigScale)
    [] OTHER -> robotHeight

\* FirstStepMode with every leg starting in the arc.
FirstStepMode_AllArc(id) == "FIRST_STEP_ARC"

\* Which phase the first step starts in (update, lines 43-50).
FirstStepMode(id) ==
  IF id \in {"LEG_1", "LEG_3"} THEN "FIRST_STEP_ARC" ELSE "FIRST_STEP_DRAW_BACK"

\* DropStep with the draw-back phases adding the increment as the arcs do.
DropStep_NoSign(mode) ==
  IF mode = "STANDING" THEN 0 ELSE GAIT_POSITION_INCREMENT

\* DropStep with two increments to a step.
DropStep_Double(mode) ==
  CASE mode \in {"FIRST_STEP_ARC", "ACTIVE_WALKING_ARC"} ->
         2 * GAIT_POSITION_INCREMENT
    [] mode \in {"FIRST_STEP_DRAW_BACK", "ACTIVE_WALKING_DRAW_BACK"} ->
         -2 * GAIT_POSITION_INCREMENT
    [] OTHER -> 0

\* The sign of the foot-drop increment in a phase (update, lines 66-93).
DropStep(mode) ==
  CASE mode \in {"FIRST_STEP_ARC", "ACTIVE_WALKING_ARC"} ->
         GAIT_POSITION_INCREMENT
    [] mode \in {"FIRST_STEP_DRAW_BACK", "ACTIVE_WALKING_DRAW_BACK"} ->
         -GAIT_POSITION_INCREMENT
    [] OTHER -> 0

\* PhaseAfter with the first-step arc handing over to the active arc.
PhaseAfter_ArcToArc(mode, drop) ==
  CASE mode = "FIRST_STEP_ARC"
         /\ 2 * drop = Gaits[gaitType].periodHalf -> "ACTIVE_WALKING_ARC"
    [] mode = "ACTIVE_WALKING_ARC"
         /\ 2 * drop = Gaits[gaitType].periodHalf -> "ACTIVE_WALKING_DRAW_BACK"
    [] mode \in {"FIRST_STEP_DRAW_BACK", "ACTIVE_WALKING_DRAW_BACK"}
         /\ 2 * drop = -Gaits[gaitType].periodHalf -> "ACTIVE_WALKING_ARC"
    [] OTHER -> mode

\* The phase after the accumulator moved to drop (update, lines 66-93); the
\* comparison is with the float periodHalf/2, so 2 * drop = periodHalf.
PhaseAfter(mode, drop) ==
  CASE mode \in {"FIRST_STEP_ARC", "ACTIVE_WALKING_ARC"}
         /\ 2 * drop = PeriodHalf -> "ACTIVE_WALKING_DRAW_BACK"
    [] mode \in {"FIRST_STEP_DRAW_BACK", "ACTIVE_WALKING_DRAW_BACK"}
         /\ 2 * drop = -PeriodHalf -> "ACTIVE_WALKING_ARC"
    [] OTHER -> mode

\* (millis() - _previousUpdateTime) % TIME_TO_UPDATE == 0 (line 56).
OnSchedule == (now - previousUpdateTime) % TIME_TO_UPDATE = 0

\* The x the cached position holds when the interpolators are sampled: legs 2
\* and 3 negate the cached x (lines 59-60), and line 62 then overwrites it.
MirroredX(id, x) == IF id \in {"LEG_2", "LEG_3"} THEN -x ELSE x

SampledX(id, cachedX, sample) ==
  LET flipped == MirroredX(id, cachedX) IN sample

\* bool update(ROBOT_MODE robotMode)
update(robotMode) ==
  IF legMode = "STANDING" /\ robotMode = "WALKING"
  THEN /\ previousUpdateTime' = now - 1
       /\ legMode' = FirstStepMode(legID)
       /\ footXYDrop' = 0
       /\ ret' = "true"
       /\ UNCHANGED <<now, legID, gaitType, robotHeight, dynamicFootPosition,
                      stepEndpoint, wasAtOrigin, footPosX, footPosY, retargets>>
  ELSE IF OnSchedule
  THEN /\ footPosX' = InterpUpdate(footPosX, now)
       /\ footPosY' = InterpUpdate(footPosY, now)
       /\ dynamicFootPosition' =
            [x |-> SampledX(legID, dynamicFootPosition.x, footPosX'.val),
             y |-> footPosY'.val,
             z |-> getStepHeight(footXYDrop, legMode)]
       /\ footXYDrop' = footXYDrop + DropStep(legMode)
       /\ legMode' = PhaseAfter(legMode, footXYDrop')
       /\ previousUpdateTime' = now - 1
       /\ ret' = "true"
       /\ UNCHANGED <<now, legID, gaitType, robotHeight, stepEndpoint,
                      wasAtOrigin, retargets>>
  ELSE /\ ret' = "false"
       /\ UNCHANGED <<now, plannerVars, retargets>>

\* The control vector projected onto the circle of radius periodHalf/2, with
\* the signs of the commanded quadrant (setStepEndpoint, lines 149-164), in
\* 1/FP units.  movementGradient is the quotient of two int16_t.
ProjectedEndpoint(controlCoordinateX, controlCoordinateY) ==
  LET radius == (PeriodHalf * FP) \div 2
      movementGradient == TDiv(controlCoordinateY, controlCoordinateX)
      root == ISqrt((1 + movementGradient * movementGradient) * FP * FP)
      ex == IF controlCoordinateX = 0 THEN 0 ELSE TDiv(radius * FP, root)
      ey == IF controlCoordinateX = 0 THEN radius
            ELSE TDiv(radius * Abs(movementGradient) * FP, root)
  IN [x |-> IF controlCoordinateX < 0 THEN -ex ELSE ex,
      y |-> IF controlCoordinateY < 0 THEN -ey ELSE ey]

\* SwappedEndpoint without the axis swap.
SwappedEndpoint_NoSwap(mode, pe) ==
  LET s == IF mode \in {"ACTIVE_WALKING_DRAW_BACK", "FIRST_STEP_DRAW_BACK"}
           THEN -1 ELSE 1
  IN [x |-> s * pe.x, y |-> s * pe.y]

\* The flip of the draw-back phases (lines 167-170), then the axis swap
\* (lines 174-175).
SwappedEndpoint(mode, pe) ==
  LET s == IF mode \in {"ACTIVE_WALKING_DRAW_BACK", "FIRST_STEP_DRAW_BACK"}
           THEN -1 ELSE 1
  IN [x |-> s * pe.y, y |-> s * pe.x]

\* CompletionTime for a whole period.
CompletionTime_Double ==
  TDiv((TIME_TO_UPDATE - 1) * PeriodHalf, GAIT_POSITION_INCREMENT)

\* completionTime (line 177).
CompletionTime ==
  TDiv((TIME_TO_UPDATE - 1) * PeriodHalf, 2 * GAIT_POSITION_INCREMENT)

\* The zero control vector (lines 140-147), with the leg told to stand but
\* the footPosY interpolator left on its way.
StandStill_NoSnapY ==
  /\ stepEndpoint' = [x |-> 0, y |-> 0]
  /\ footPosX' = InterpSnap(0)
  /\ footPosY' = footPosY
  /\ legMode' = "STANDING"

\* The zero control vector (lines 140-147), with the phase left as it is.
StandStill_KeepPhase ==
  /\ stepEndpoint' = [x |-> 0, y |-> 0]
  /\ footPosX' = InterpSnap(0)
  /\ footPosY' = InterpSnap(0)
  /\ legMode' = legMode

\* The zero control vector: "stopped walking" (lines 140-147).
StandStill ==
  /\ stepEndpoint' = [x |-> 0, y |-> 0]
  /\ footPosX' = InterpSnap(0)
  /\ footPosY' = InterpSnap(0)
  /\ legMode' = "STANDING"

\* void setStepEndpoint(int16_t controlCoordinateX, int16_t controlCoordinateY)
setStepEndpoint(controlCoordinateX, controlCoordinateY) ==
  /\ ret' = "none"
  /\ IF controlCoordinateX = 0 /\ controlCoordinateY = 0
     THEN /\ StandStill
          /\ UNCHANGED retargets
     ELSE /\ retargets < MaxRetargets
          /\ retargets' = retargets + 1
          /\ stepEndpoint' =
               SwappedEndpoint(legMode,
                               ProjectedEndpoint(controlCoordinateX,
                                                 controlCoordinateY))
          /\ footPosX' = InterpGo(footPosX, stepEndpoint'.x, CompletionTime, now)
          /\ footPosY' = InterpGo(footPosY, stepEndpoint'.y, CompletionTime, now)
          /\ UNCHANGED legMode
  /\ UNCHANGED <<now, legID, gaitType, robotHeight, footXYDrop,
                 previousUpdateTime, dynamicFootPosition, wasAtOrigin>>

\* setGait without the test of the phase.
setGait_Unguarded(g) ==
  /\ gaitType' = g
  /\ ret' = "none"
  /\ UNCHANGED <<now, legID, legMode, robotHeight, footXYDrop,
                 previousUpdateTime, dynamicFootPosition, stepEndpoint,
                 wasAtOrigin, footPosX, footPosY, retargets>>

\* void setGait(GaitType gaitType)
setGait(g) ==
  /\ gaitType' = IF legMode = "STANDING" THEN g ELSE gaitType
  /\ ret' = "none"
  /\ UNCHANGED <<now, legID, legMode, robotHeight, footXYDrop,
                 previousUpdateTime, dynamicFootPosition, stepEndpoint,
                 wasAtOrigin, footPosX, footPosY, retargets>>

\* footAtOrigin with the latch never cleared by a non-zero drop.
footAtOrigin_NoRearm ==
  /\ IF footXYDrop = 0 /\ wasAtOrigin = FALSE
     THEN wasAtOrigin' = TRUE /\ ret' = "true"
     ELSE wasAtOrigin' = wasAtOrigin /\ ret' = "false"
  /\ UNCHANGED <<now, legID, legMode, gaitType, robotHeight, footXYDrop,
                 previousUpdateTime, dynamicFootPosition, stepEndpoint,
                 footPosX, footPosY, retargets>>

\* bool footAtOrigin()
footAtOrigin ==
  /\ IF footXYDrop = 0 /\ wasAtOrigin = FALSE
     THEN wasAtOrigin' = TRUE /\ ret' = "true"
     ELSE /\ wasAtOrigin' = IF footXYDrop # 0 THEN FALSE ELSE wasAtOrigin
          /\ ret' = "false"
  /\ UNCHANGED <<now, legID, legMode, gaitType, robotHeight, footXYDrop,
                 previousUpdateTime, dynamicFootPosition, stepEndpoint,
                 footPosX, footPosY, retargets>>

\* ResetAssigns with the origin latch left as it is.
ResetAssigns_KeepLatch(h) ==
  /\ dynamicFootPosition' = [x |-> 0, y |-> 0, z |-> h]
  /\ wasAtOrigin' = wasAtOrigin
  /\ legMode' = "STANDING"
  /\ footXYDrop' = 0
  /\ footPosX' = InterpSnap(0)
  /\ footPosY' = InterpSnap(0)

\* What reset() assigns (lines 205-214), for robot height h.
ResetAssigns(h) ==
  /\ dynamicFootPosition' = [x |-> 0, y |-> 0, z |-> h]
  /\ wasAtOrigin' = FALSE
  /\ legMode' = "STANDING"
  /\ footXYDrop' = 0
  /\ footPosX' = InterpSnap(0)
  /\ footPosY' = InterpSnap(0)

\* void reset()
reset ==
  /\ ResetAssigns(robotHeight)
  /\ ret' = "none"
  /\ UNCHANGED <<now, legID, gaitType, robotHeight, previousUpdateTime,
                 stepEndpoint, retargets>>

\* void init(int16_t robotHeight)
init(h) ==
  /\ gaitType' = DEFAULT_GAIT
  /\ robotHeight' = h
  /\ ResetAssigns(h)
  /\ ret' = "none"
  /\ UNCHANGED <<now, legID, previousUpdateTime, stepEndpoint, retargets>>

\* The clock advances by one millisecond.
Tick ==
  /\ now < MaxTime
  /\ now' = now + 1
  /\ UNCHANGED <<plannerVars, ret, retargets>>

\* The caller before its first update call.
SyncNew == [calledAt |-> -1, zeroAt |-> 0]

\* A second planner after StepPlanner(id) and init: the members that decide
\* its phase and its foot drop; t is what _previousUpdateTime holds.
PeerNew(id, t) ==
  [legID |-> id, legMode |-> "STANDING", footXYDrop |-> 0,
   previousUpdateTime |-> t]

\* update(robotMode) of the second planner, which runs the default gait as
\* the first does: the phase, the foot drop and the timestamp it leaves.
PeerUpdate(robotMode) ==
  peer' =
    IF peer.legMode = "STANDING" /\ robotMode = "WALKING"
    THEN [peer EXCEPT !.previousUpdateTime = now - 1,
                      !.legMode = FirstStepMode(peer.legID),
                      !.footXYDrop = 0]
    ELSE IF (now - peer.previousUpdateTime) % TIME_TO_UPDATE = 0
    THEN [peer EXCEPT
            !.footXYDrop = @ + DropStep(peer.legMode),
            !.legMode = PhaseAfter(peer.legMode,
                                   peer.footXYDrop + DropStep(peer.legMode)),
            !.previousUpdateTime = now - 1]
    ELSE peer

\* The Kinematics object before its constructor ran: the members hold
\* indeterminate values.
KinNew ==
  /\ constructed = FALSE
  /\ motor1 = [angleDegrees |-> 0, angleMicros |-> 0, dynamicDegrees |-> 0,
               dynamicMicros |-> 0, previousDegrees |-> 0, calibOffset |-> 0]
  /\ motor2 = motor1
  /\ motor3 = motor1
  /\ dynamicX = InterpSnap(0)
  /\ dynamicY = InterpSnap(0)
  /\ dynamicZ = InterpSnap(0)
  /\ lrintNaN = 0
  /\ int16NaN = 0
  /\ halted = FALSE
  /\ moves = 0
  /\ h_solved = <<>>
  /\ h_solvedFor = <<>>
  /\ h_encoded = {}
  /\ h_goIssued = FALSE
  /\ h_lastEndpoint = <<>>
  /\ h_repeated = FALSE

\* After StepPlanner(legID) and init(robotHeight).  _previousUpdateTime and
\* _stepEndpoint are not assigned by either: any value.
Init ==
  /\ now = 0
  /\ legID \in LegIDs
  /\ legMode = "STANDING"
  /\ gaitType = DEFAULT_GAIT
  /\ robotHeight \in Heights
  /\ footXYDrop = 0
  /\ previousUpdateTime \in 0..(TIME_TO_UPDATE - 1)
  /\ dynamicFootPosition = [x |-> 0, y |-> 0, z |-> robotHeight]
  /\ stepEndpoint = [x |-> 0, y |-> 0]
  /\ wasAtOrigin = FALSE
  /\ footPosX = InterpSnap(0)
  /\ footPosY = InterpSnap(0)
  /\ ret = "none"
  /\ retargets = 0
  /\ KinNew
  /\ h_lastControl = "none"
  /\ h_walkCommanded = FALSE
  /\ h_walkSinceStand = FALSE
  /\ h_trueSinceZero = FALSE
  /\ h_armed = TRUE
  /\ h_gaitRefused = FALSE
  /\ peer = PeerNew("LEG_2", 0)
  /\ sync = SyncNew

\* ------------------------------------------------------------------------
\* Kinematics: the operations
\* ------------------------------------------------------------------------

\* go(target, duration, LINEAR, ONCEFORWARD) at time t.
InterpGoOnce(itp, target, dur, t) ==
  IF dur = 0 THEN InterpSnap(target)
  ELSE [val |-> itp.val, A |-> itp.val, B |-> target, dur |-> dur, t0 |-> t]

\* update() at time t of an interpolator that runs once forward.
InterpUpdateOnce(itp, t) ==
  IF itp.dur = 0 THEN itp
  ELSE LET p == IF t - itp.t0 >= itp.dur THEN itp.dur ELSE t - itp.t0
       IN [itp EXCEPT !.val = itp.A + TDiv((itp.B - itp.A) * p, itp.dur)]

\* What the constructor leaves in a motor (lines 12-16): solved is the angle
\* solveFootPosition wrote to angleDegrees.
ConstructedMotor(motor, solved, calib) ==
  [angleDegrees |-> motor.dynamicDegrees,
   angleMicros |-> degreesToMicros(solved, calib),
   dynamicDegrees |-> motor.dynamicDegrees,
   dynamicMicros |-> degreesToMicros(motor.dynamicDegrees, calib),
   previousDegrees |-> 360,
   calibOffset |-> calib]

\* The <<joint, degrees>> pairs the constructor passes to _degreesToMicros.
ConstructorEncodes(solved) ==
  {<<j, solved[j]>> : j \in 1..3}
    \cup {<<1, motor1.dynamicDegrees>>, <<2, motor2.dynamicDegrees>>,
          <<3, motor3.dynamicDegrees>>}

\* Kinematics(legID, inputX, inputY, inputZ, motor1CalibOffset, ...)
Kinematics(inputX, inputY, inputZ, calib) ==
  /\ ~constructed
  /\ constructed' = TRUE
  /\ \E solved \in {solveFootPosition(inputX, inputY, inputZ)} :
        /\ motor1' = ConstructedMotor(motor1, solved[1], calib[1])
        /\ motor2' = ConstructedMotor(motor2, solved[2], calib[2])
        /\ motor3' = ConstructedMotor(motor3, solved[3], calib[3])
        /\ h_solved' = solved
        /\ h_encoded' = ConstructorEncodes(solved)
  /\ h_solvedFor' = <<inputX, inputY, inputZ>>
  /\ halted' = (halted \/ SolveHalts)
  /\ dynamicX' = InterpSnap(inputX * FP)
  /\ dynamicY' = InterpSnap(inputY * FP)
  /\ dynamicZ' = InterpSnap(inputZ * FP)
  /\ UNCHANGED <<lrintNaN, int16NaN, moves, h_goIssued, h_lastEndpoint,
                 h_repeated>>

Max2(a, b) == IF a >= b THEN a ELSE b

\* Whether setFootEndpoint found a new target angle (line 58).
TargetChanged(a1, a2, a3) ==
  \/ motor1.previousDegrees # a1
  \/ motor2.previousDegrees # a2
  \/ motor3.previousDegrees # a3

\* setFootEndpoint that commands the interpolators without storing the target.
StoreTarget_Forgotten(motor, a, changed) == [motor EXCEPT !.angleDegrees = a]

\* The motor after setFootEndpoint solved angle a (lines 49, 59-61).
StoreTarget(motor, a, changed) ==
  [motor EXCEPT !.angleDegrees = a,
                !.previousDegrees = IF changed THEN a ELSE @]

\* void setFootEndpoint(int16_t inputX, int16_t inputY, int16_t inputZ)
setFootEndpoint(inputX, inputY, inputZ) ==
  /\ constructed /\ ~halted
  /\ moves < MaxMoves
  /\ moves' = moves + 1
  /\ \E solved \in {solveFootPosition(inputX, inputY, inputZ)} :
     LET changed == TargetChanged(solved[1], solved[2], solved[3])
         motor1AngleDelta == Abs(solved[1] - motor1.previousDegrees)
         motor2AngleDelta == Abs(solved[2] - motor2.previousDegrees)
         motor3AngleDelta == Abs(solved[3] - motor3.previousDegrees)
         demandTime ==
           (MAX_SPEED_INVERSE
              * Max2(Max2(motor1AngleDelta, motor2AngleDelta), motor3AngleDelta))
             % 65536
     IN /\ motor1' = StoreTarget(motor1, solved[1], changed)
        /\ motor2' = StoreTarget(motor2, solved[2], changed)
        /\ motor3' = StoreTarget(motor3, solved[3], changed)
        /\ IF changed
           THEN /\ dynamicX' = InterpGoOnce(dynamicX, inputX * FP, demandTime, now)
                /\ dynamicY' = InterpGoOnce(dynamicY, inputY * FP, demandTime, now)
                /\ dynamicZ' = InterpGoOnce(dynamicZ, inputZ * FP, demandTime, now)
                /\ h_goIssued' = TRUE
           ELSE /\ UNCHANGED <<dynamicX, dynamicY, dynamicZ>>
                /\ h_goIssued' = FALSE
        /\ h_solved' = solved
  /\ h_solvedFor' = <<inputX, inputY, inputZ>>
  /\ h_lastEndpoint' = <<inputX, inputY, inputZ>>
  /\ h_repeated' = (h_lastEndpoint = <<inputX, inputY, inputZ>>)
  /\ h_encoded' = {}
  /\ halted' = (halted \/ SolveHalts)
  /\ UNCHANGED <<constructed, lrintNaN, int16NaN>>

\* void updateDynamicFootPosition()
updateDynamicFootPosition ==
  /\ constructed /\ ~halted
  /\ dynamicX' = InterpUpdateOnce(dynamicX, now)
  /\ dynamicY' = InterpUpdateOnce(dynamicY, now)
  /\ dynamicZ' = InterpUpdateOnce(dynamicZ, now)
  /\ \E x \in {TDiv(dynamicX'.val, FP)}, y \in {TDiv(dynamicY'.val, FP)},
        z \in {TDiv(dynamicZ'.val, FP)} :
     \E solved \in {solveFootPosition(x, y, z)} :
        /\ motor1' = [motor1 EXCEPT
                        !.dynamicDegrees = solved[1],
                        !.dynamicMicros = degreesToMicros(solved[1], motor1.calibOffset)]
        /\ motor2' = [motor2 EXCEPT
                        !.dynamicDegrees = solved[2],
                        !.dynamicMicros = degreesToMicros(solved[2], motor2.calibOffset)]
        /\ motor3' = [motor3 EXCEPT
                        !.dynamicDegrees = solved[3],
                        !.dynamicMicros = degreesToMicros(solved[3], motor3.calibOffset)]
        /\ h_solved' = solved
        /\ h_solvedFor' = <<x, y, z>>
        /\ h_encoded' = {<<j, solved[j]>> : j \in 1..3}
  /\ halted' = (halted \/ SolveHalts)
  /\ UNCHANGED <<constructed, lrintNaN, int16NaN, moves, h_goIssued,
                 h_lastEndpoint, h_repeated>>

\* The clock advances by one millisecond.
TickKin ==
  /\ now < MaxTimeKin * KinStep
  /\ now' = now + KinStep
  /\ UNCHANGED kinVars

\* The planner, initialised and left alone.
PlannerIdle ==
  /\ now = 0
  /\ legID = "LEG_1"
  /\ legMode = "STANDING"
  /\ gaitType = DEFAULT_GAIT
  /\ robotHeight = 120
  /\ footXYDrop = 0
  /\ previousUpdateTime = 0
  /\ dynamicFootPosition = [x |-> 0, y |-> 0, z |-> 120]
  /\ stepEndpoint = [x |-> 0, y |-> 0]
  /\ wasAtOrigin = FALSE
  /\ footPosX = InterpSnap(0)
  /\ footPosY = InterpSnap(0)
  /\ ret = "none"
  /\ retargets = 0
  /\ h_lastControl = "none"
  /\ h_walkCommanded = FALSE
  /\ h_walkSinceStand = FALSE
  /\ h_trueSinceZero = FALSE
  /\ h_armed = TRUE
  /\ h_gaitRefused = FALSE
  /\ peer = PeerNew("LEG_2", 0)
  /\ sync = SyncNew

\* The Kinematics object before its constructor ran: the members hold
\* indeterminate values; what the build makes of NaN is fixed.
InitKin ==
  /\ PlannerIdle
  /\ constructed = FALSE
  /\ \E g \in Indeterminate :
       /\ motor1 = [angleDegrees |-> g, angleMicros |-> g, dynamicDegrees |-> g,
                    dynamicMicros |-> g, previousDegrees |-> g, calibOffset |-> g]
       /\ motor2 = motor1
       /\ motor3 = motor1
  /\ dynamicX = InterpSnap(0)
  /\ dynamicY = InterpSnap(0)
  /\ dynamicZ = InterpSnap(0)
  /\ lrintNaN \in LrintOfNaN
  /\ int16NaN \in Int16OfNaN
  /\ halted = FALSE
  /\ moves = 0
  /\ h_solved = <<>>
  /\ h_solvedFor = <<>>
  /\ h_encoded = {}
  /\ h_goIssued = FALSE
  /\ h_lastEndpoint = <<>>
  /\ h_repeated = FALSE

NextKin ==
  \/ TickKin /\ UNCHANGED <<plannerAll, peer, sync>>
  \/ \E p \in FootPoints, c \in Calibs :
       Kinematics(p[1], p[2], p[3], c) /\ UNCHANGED <<now, plannerAll, peer, sync>>
  \/ \E p \in FootPoints :
       setFootEndpoint(p[1], p[2], p[3]) /\ UNCHANGED <<now, plannerAll, peer, sync>>
  \/ updateDynamicFootPosition /\ UNCHANGED <<now, plannerAll, peer, sync>>

SpecKin == InitKin /\ [][NextKin]_vars

\* ------------------------------------------------------------------------
\* The history each call leaves
\* ------------------------------------------------------------------------

\* The drop left 0: a later return to 0 is a new crossing.
DropHistory ==
  h_trueSinceZero' = IF footXYDrop' # 0 THEN FALSE ELSE h_trueSinceZero

H_Tick == UNCHANGED histVars

H_update(robotMode) ==
  /\ h_walkCommanded' = (h_walkCommanded \/ robotMode = "WALKING")
  /\ h_walkSinceStand' = (h_walkSinceStand \/ robotMode = "WALKING")
  /\ DropHistory
  /\ UNCHANGED <<h_lastControl, h_armed, h_gaitRefused>>

H_setStepEndpoint(cx, cy) ==
  /\ h_lastControl' = IF cx = 0 /\ cy = 0 THEN "zero" ELSE "nonzero"
  /\ h_walkSinceStand' = IF cx = 0 /\ cy = 0 THEN FALSE ELSE h_walkSinceStand
  /\ DropHistory
  /\ UNCHANGED <<h_walkCommanded, h_armed, h_gaitRefused>>

H_setGait(g) ==
  /\ h_gaitRefused' = (g # gaitType /\ gaitType' = gaitType)
  /\ DropHistory
  /\ UNCHANGED <<h_lastControl, h_walkCommanded, h_walkSinceStand, h_armed>>

H_footAtOrigin ==
  /\ h_trueSinceZero' = IF footXYDrop # 0 THEN FALSE
                        ELSE (h_trueSinceZero \/ ret' = "true")
  /\ h_armed' = IF ret' = "true" THEN FALSE
                ELSE IF footXYDrop # 0 THEN TRUE ELSE h_armed
  /\ UNCHANGED <<h_lastControl, h_walkCommanded, h_walkSinceStand,
                 h_gaitRefused>>

H_reset ==
  /\ h_walkCommanded' = FALSE
  /\ h_walkSinceStand' = FALSE
  /\ h_armed' = TRUE
  /\ DropHistory
  /\ UNCHANGED <<h_lastControl, h_gaitRefused>>

Next ==
  \/ Tick /\ H_Tick /\ UNCHANGED idleVars
  \/ \E m \in RobotModes : update(m) /\ H_update(m) /\ UNCHANGED idleVars
  \/ \E c \in Controls :
       /\ setStepEndpoint(c[1], c[2])
       /\ H_setStepEndpoint(c[1], c[2])
       /\ UNCHANGED idleVars
  \/ \E g \in GaitTypes : setGait(g) /\ H_setGait(g) /\ UNCHANGED idleVars
  \/ footAtOrigin /\ H_footAtOrigin /\ UNCHANGED idleVars
  \/ reset /\ H_reset /\ UNCHANGED idleVars
  \/ \E h \in Heights : init(h) /\ H_reset /\ UNCHANGED idleVars

Spec == Init /\ [][Next]_vars

\* The planner with a choice of gait: two legs, one from each first-step
\* group, and the control vectors GaitControls.
GaitControls == {<<0, 0>>, <<50, 0>>}
\* ... and the heights init is called with.
GaitHeights == {120, 90}

InitGait == Init /\ legID \in {"LEG_1", "LEG_2"} /\ previousUpdateTime = 0

TickGait == now < MaxTimeGait /\ Tick

NextGait ==
  \/ TickGait /\ H_Tick /\ UNCHANGED idleVars
  \/ \E m \in RobotModes : update(m) /\ H_update(m) /\ UNCHANGED idleVars
  \/ \E c \in GaitControls :
       /\ setStepEndpoint(c[1], c[2])
       /\ H_setStepEndpoint(c[1], c[2])
       /\ UNCHANGED idleVars
  \/ \E g \in GaitInputs : setGait(g) /\ H_setGait(g) /\ UNCHANGED idleVars
  \/ footAtOrigin /\ H_footAtOrigin /\ UNCHANGED idleVars
  \/ reset /\ H_reset /\ UNCHANGED idleVars
  \/ \E h \in GaitHeights : init(h) /\ H_reset /\ UNCHANGED idleVars

SpecGait == InitGait /\ [][NextGait]_vars

\* Two planners, one of each first-step group, each with its own members
\* and both reading millis().  They are given update at the same clock
\* values, and the update that starts the walk in the same call; neither is
\* reset or given the zero control vector.
InitPair ==
  /\ now = 0
  /\ legID \in {"LEG_1", "LEG_3"}
  /\ legMode = "STANDING"
  /\ gaitType = DEFAULT_GAIT
  /\ robotHeight \in Heights
  /\ footXYDrop = 0
  /\ previousUpdateTime \in 0..(TIME_TO_UPDATE - 1)
  /\ dynamicFootPosition = [x |-> 0, y |-> 0, z |-> robotHeight]
  /\ stepEndpoint = [x |-> 0, y |-> 0]
  /\ wasAtOrigin = FALSE
  /\ footPosX = InterpSnap(0)
  /\ footPosY = InterpSnap(0)
  /\ ret = "none"
  /\ retargets = 0
  /\ KinNew
  /\ h_lastControl = "none"
  /\ h_walkCommanded = FALSE
  /\ h_walkSinceStand = FALSE
  /\ h_trueSinceZero = FALSE
  /\ h_armed = TRUE
  /\ h_gaitRefused = FALSE
  /\ \E id \in {"LEG_2", "LEG_4"}, t \in 0..(TIME_TO_UPDATE - 1) :
       peer = PeerNew(id, t)
  /\ sync = SyncNew

\* update on both planners at one clock value; the robot mode is one for
\* both while they stand.
PairUpdate(m1, m2) ==
  /\ legMode = "STANDING" => m1 = m2
  /\ update(m1)
  /\ H_update(m1)
  /\ PeerUpdate(m2)

NextPair ==
  \/ Tick /\ H_Tick /\ UNCHANGED idleVars
  \/ \E m1 \in RobotModes, m2 \in RobotModes :
       PairUpdate(m1, m2) /\ UNCHANGED <<kinVars, sync>>
  \/ \E c \in Controls \ {<<0, 0>>} :
       /\ setStepEndpoint(c[1], c[2])
       /\ H_setStepEndpoint(c[1], c[2])
       /\ UNCHANGED idleVars
  \/ footAtOrigin /\ H_footAtOrigin /\ UNCHANGED idleVars

SpecPair == InitPair /\ [][NextPair]_vars

\* The planner with a caller that gives update once at every millisecond of
\* the clock: the clock advances when update was called at its value.
SyncTick == sync.calledAt = now /\ Tick

SyncUpdate(m) ==
  /\ sync.calledAt < now
  /\ update(m)
  /\ sync' = [calledAt |-> now,
              zeroAt |-> IF footXYDrop' = 0 THEN now ELSE sync.zeroAt]

NextSync ==
  \/ SyncTick /\ H_Tick /\ UNCHANGED idleVars
  \/ \E m \in RobotModes :
       SyncUpdate(m) /\ H_update(m) /\ UNCHANGED <<kinVars, peer>>
  \/ \E c \in Controls :
       /\ setStepEndpoint(c[1], c[2])
       /\ H_setStepEndpoint(c[1], c[2])
       /\ UNCHANGED idleVars
  \/ footAtOrigin /\ H_footAtOrigin /\ UNCHANGED idleVars
  \/ reset /\ H_reset /\ UNCHANGED idleVars

SpecSync == Init /\ [][NextSync]_vars

\* ------------------------------------------------------------------------
\* Steps the properties speak of
\* ------------------------------------------------------------------------

FirstStepPhases == {"FIRST_STEP_ARC", "FIRST_STEP_DRAW_BACK"}
ArcPhases == {"FIRST_STEP_ARC", "ACTIVE_WALKING_ARC"}
DrawBackPhases == {"FIRST_STEP_DRAW_BACK", "ACTIVE_WALKING_DRAW_BACK"}

\* A call that tells the leg to stand.
StandCall == reset \/ (\E h \in Heights : init(h)) \/ setStepEndpoint(0, 0)

\* A call of update that recomputes the foot position (lines 56-96).
Recompute ==
  \E m \in RobotModes :
    /\ update(m)
    /\ ~(legMode = "STANDING" /\ m = "WALKING")
    /\ OnSchedule

RestPosition == [x |-> 0, y |-> 0, z |-> robotHeight]

\* ------------------------------------------------------------------------
\* C1
\* ------------------------------------------------------------------------

\* C1: while no call tells the leg to stand, a standing leg can only enter a
\* first-step phase, a first-step or active arc phase can only be followed by
\* ACTIVE_WALKING_DRAW_BACK and a first-step or active draw-back phase only by
\* ACTIVE_WALKING_ARC (so no first-step phase and no STANDING is re-entered),
\* and the phase of a walking leg switches exactly on the recomputing update
\* that moves |footXYDrop| to periodHalf/2.
C1_PhaseCycleClosure ==
  [][~StandCall =>
       /\ legMode = "STANDING" =>
            legMode' \in {"STANDING"} \cup FirstStepPhases
       /\ legMode \in ArcPhases =>
            legMode' \in {legMode, "ACTIVE_WALKING_DRAW_BACK"}
       /\ legMode \in DrawBackPhases =>
            legMode' \in {legMode, "ACTIVE_WALKING_ARC"}
       /\ legMode # "STANDING" =>
            ((legMode' # legMode)
               <=> (Recompute /\ 2 * Abs(footXYDrop') = PeriodHalf))]_vars

\* A leg that took its first step as an arc, drew back, and is in the arc of
\* the next cycle.
C1_Witness ==
  /\ legID = "LEG_1"
  /\ legMode = "ACTIVE_WALKING_ARC"
  /\ 2 * footXYDrop > -PeriodHalf

\* ------------------------------------------------------------------------
\* C2
\* ------------------------------------------------------------------------

\* C2: in every reachable state -periodHalf/2 <= _footXYDrop <= periodHalf/2.
C2_FootDropInRange ==
  /\ -PeriodHalf <= 2 * footXYDrop
  /\ 2 * footXYDrop <= PeriodHalf

\* The accumulator at the lower end of its range, turning into the arc.
C2_Witness ==
  /\ 2 * footXYDrop = -PeriodHalf
  /\ legMode = "ACTIVE_WALKING_ARC"
  /\ h_lastControl = "nonzero"

\* ------------------------------------------------------------------------
\* C3
\* ------------------------------------------------------------------------

\* C3: the x a recomputing update leaves in dynamicFootPosition is the sample
\* of footPosX for LEG_1 and LEG_4, and its negation for the mirrored LEG_2
\* and LEG_3 (same phase, same control input, same sample).
C3_MirroringSymmetry ==
  [][Recompute =>
       dynamicFootPosition'.x =
         IF legID \in {"LEG_2", "LEG_3"} THEN -(footPosX'.val)
         ELSE footPosX'.val]_vars

\* ------------------------------------------------------------------------
\* C4
\* ------------------------------------------------------------------------

\* C4 as claimed: footAtOrigin() returns true exactly when the drop is 0 and
\* it has not returned true since the drop last became 0.
C4_OncePerCrossing ==
  [][footAtOrigin =>
       ((ret' = "true") <=> (footXYDrop = 0 /\ ~h_trueSinceZero))]_vars

\* C4 as amended: footAtOrigin() returns true exactly when the drop is 0 and
\* it has not returned true since the latch was last re-armed, by a
\* footAtOrigin() call that saw a non-zero drop or by reset()/init().
C4_OncePerArming ==
  [][footAtOrigin =>
       ((ret' = "true") <=> (footXYDrop = 0 /\ h_armed))]_vars

\* A zero crossing of a walking leg, reported once and latched.
C4_Witness ==
  /\ legMode \in {"ACTIVE_WALKING_ARC", "ACTIVE_WALKING_DRAW_BACK"}
  /\ footXYDrop = 0
  /\ h_trueSinceZero
  /\ ~h_armed
  /\ wasAtOrigin

\* ------------------------------------------------------------------------
\* C5
\* ------------------------------------------------------------------------

\* setStepEndpoint(0,0) always leaves the phase STANDING.
C5_LeavesStanding == setStepEndpoint(0, 0) => legMode' = "STANDING"

\* After setStepEndpoint(0,0) the next recomputing update caches the rest
\* position, whether the leg still stands or was told to walk again.
C5_ReachesRest ==
  (/\ Recompute
   /\ h_lastControl = "zero"
   /\ \/ legMode = "STANDING"
      \/ legMode \in FirstStepPhases /\ footXYDrop = 0)
    => dynamicFootPosition' = RestPosition

\* C5 as claimed: ... and once the planner stands at the rest position a
\* further setStepEndpoint(0,0) changes no planner state.
C5_IdempotentStanding ==
  [][/\ C5_LeavesStanding
     /\ C5_ReachesRest
     /\ (/\ setStepEndpoint(0, 0)
         /\ legMode = "STANDING"
         /\ dynamicFootPosition = RestPosition)
          => UNCHANGED plannerVars]_vars

\* C5 as amended: ... and once the planner stands as the result of a
\* setStepEndpoint(0,0), no non-zero vector commanded since, a further
\* setStepEndpoint(0,0) changes no planner state.
C5_IdempotentAfterZero ==
  [][/\ C5_LeavesStanding
     /\ C5_ReachesRest
     /\ (/\ setStepEndpoint(0, 0)
         /\ legMode = "STANDING"
         /\ h_lastControl = "zero")
          => UNCHANGED plannerVars]_vars

\* A leg stopped in mid-stride by the zero vector, its rest position cached by
\* the recomputing update that followed.
C5_Witness ==
  /\ h_lastControl = "zero"
  /\ legMode = "STANDING"
  /\ footXYDrop # 0
  /\ retargets > 0
  /\ ret = "true"
  /\ previousUpdateTime = now - 1
  /\ dynamicFootPosition = RestPosition

\* ------------------------------------------------------------------------
\* C6
\* ------------------------------------------------------------------------

\* C6 as claimed: the phase is STANDING iff no walking was commanded since
\* the last init/reset or the last commanded control vector is (0,0).
C6_StandingIffZero ==
  (legMode = "STANDING") <=> (~h_walkCommanded \/ h_lastControl = "zero")

\* C6 as amended: the phase is STANDING iff update(WALKING) was not called
\* since the last init, reset or setStepEndpoint(0,0).
C6_StandingIffNoWalkSince ==
  (legMode = "STANDING") <=> ~h_walkSinceStand

\* A leg that walked and was stopped by the zero vector.
C6_Witness ==
  /\ legMode = "STANDING"
  /\ h_walkCommanded
  /\ h_lastControl = "zero"
  /\ footXYDrop # 0

\* ------------------------------------------------------------------------
\* C10
\* ------------------------------------------------------------------------

\* Both interpolators retargeted to the new endpoint, from now, with a
\* strictly positive completion time.
Retargeted ==
  /\ footPosX'.B = stepEndpoint'.x
  /\ footPosY'.B = stepEndpoint'.y
  /\ footPosX'.t0 = now
  /\ footPosY'.t0 = now
  /\ footPosX'.dur = CompletionTime
  /\ footPosY'.dur = CompletionTime
  /\ CompletionTime > 0

Scenario == robotHeight = 120 /\ legMode = "FIRST_STEP_ARC"

\* C10 as claimed: in the scenario setStepEndpoint(50, 0) leaves
\* _stepEndpoint.x non-zero and retargets both interpolators.
C10_EndpointXNonZero ==
  [][(Scenario /\ setStepEndpoint(50, 0)) =>
       (stepEndpoint'.x # 0 /\ Retargeted)]_vars

\* C10 as amended: in the scenario setStepEndpoint(50, 0) leaves
\* _stepEndpoint.x = 0 and _stepEndpoint.y = periodHalf/2 (the swap puts the
\* projected x-component into y) and retargets both interpolators.
C10_EndpointYNonZero ==
  [][(Scenario /\ setStepEndpoint(50, 0)) =>
       /\ stepEndpoint'.x = 0
       /\ 2 * stepEndpoint'.y = PeriodHalf * FP
       /\ Retargeted]_vars

\* The scenario after the command.
C10_Witness ==
  /\ Scenario
  /\ retargets = 1
  /\ stepEndpoint = [x |-> 0, y |-> (PeriodHalf * FP) \div 2]
  /\ footPosY.B = stepEndpoint.y
  /\ footPosY.dur > 0
  /\ footPosY.t0 = now

\* ------------------------------------------------------------------------
\* Kinematics: properties
\* ------------------------------------------------------------------------

\* The configured range of joint j.
JointRange(j) ==
  CASE j = 1 -> M1_MIN..M1_MAX
    [] j = 2 -> M2_MIN..M2_MAX
    [] j = 3 -> M3_MIN..M3_MAX

Motor(j) == CASE j = 1 -> motor1 [] j = 2 -> motor2 [] j = 3 -> motor3

\* The stored target angles.
PreviousDegrees ==
  <<motor1.previousDegrees, motor2.previousDegrees, motor3.previousDegrees>>

\* C7: whatever position solveFootPosition was given (in the envelope, out of
\* it, with z = 0, NaN inside the computation), each of the three angles it
\* wrote lies within its own joint's range.
C7_AngleClampTotality ==
  h_solved # <<>> => \A j \in 1..3 : h_solved[j] \in JointRange(j)

\* A position with z = 0 was solved and the angles of motors 2 and 3 came
\* out at their upper limits.
C7_Witness ==
  /\ h_solvedFor = <<0, 30, 0>>
  /\ h_solved[2] = M2_MAX
  /\ h_solved[3] = M3_MAX

\* C8: every angle the last call passed to _degreesToMicros is the angle the
\* clamp step produced for that joint in that call, and once the object is
\* constructed the published angles (angleDegrees, dynamicDegrees) are clamp
\* outputs, hence within the joint's range.
C8_OnlyClampedEncoded ==
  /\ \A e \in h_encoded : e[2] = h_solved[e[1]]
  /\ constructed =>
       \A j \in 1..3 : /\ Motor(j).angleDegrees \in JointRange(j)
                       /\ Motor(j).dynamicDegrees \in JointRange(j)

\* C9: setFootEndpoint commands the interpolators exactly when one of the
\* solved angles differs from the stored target, and a call with the argument
\* of the setFootEndpoint call before it commands nothing and leaves the
\* stored targets and the interpolators as they were.
C9_NoOpOnUnchangedTarget ==
  [][\A p \in FootPoints :
       setFootEndpoint(p[1], p[2], p[3]) =>
         /\ (h_goIssued' <=> (h_solved' # PreviousDegrees))
         /\ (h_lastEndpoint = p) =>
              /\ ~h_goIssued'
              /\ PreviousDegrees' = PreviousDegrees
              /\ UNCHANGED <<dynamicX, dynamicY, dynamicZ>>]_vars

\* The second of two setFootEndpoint calls with the same argument returned
\* without a command.
C9_Witness ==
  /\ h_repeated
  /\ moves = 2
  /\ ~h_goIssued
  /\ h_solvedFor = h_lastEndpoint
  /\ PreviousDegrees = h_solved

\* ------------------------------------------------------------------------
\* C11
\* ------------------------------------------------------------------------

\* C11: update returns true exactly when the call recomputed the foot
\* position, and a call that is off schedule returns false and changes
\* nothing of the planner, in every phase and for every robotMode.
C11_TrueIffRecomputed ==
  [][(\E m \in RobotModes : update(m)) =>
       /\ (ret' = "true") <=> Recompute
       /\ ~OnSchedule => (ret' = "false" /\ UNCHANGED plannerVars)]_vars

\* ------------------------------------------------------------------------
\* C12
\* ------------------------------------------------------------------------

\* The planner at rest: standing, no drop, latch clear, both interpolators
\* snapped to 0, the cached position at the origin and the robot's height.
Rested ==
  /\ legMode = "STANDING"
  /\ footXYDrop = 0
  /\ wasAtOrigin = FALSE
  /\ footPosX = InterpSnap(0)
  /\ footPosY = InterpSnap(0)
  /\ dynamicFootPosition = RestPosition

\* C12: from any state reset() leaves the planner at rest with the height it
\* had, and init(h) leaves it at rest with robotHeight = h and the default
\* gait.
C12_ResetRestores ==
  [][/\ reset => (Rested' /\ robotHeight' = robotHeight)
     /\ \A h \in GaitHeights :
          init(h) => (Rested' /\ robotHeight' = h /\ gaitType' = DEFAULT_GAIT)]_vars

\* A leg that walked towards a non-zero endpoint, was polled at the origin,
\* and was then reset or initialised: at rest, the endpoint and the update
\* timestamp still those of the walk.
C12_Witness ==
  /\ Rested
  /\ ~h_walkCommanded
  /\ h_lastControl = "nonzero"
  /\ stepEndpoint # [x |-> 0, y |-> 0]
  /\ previousUpdateTime > 1

\* ------------------------------------------------------------------------
\* C13
\* ------------------------------------------------------------------------

\* C13: setGait(g) sets the gait type to g when the phase is STANDING and
\* changes nothing of the planner in any other phase; and across any step
\* that starts and ends outside STANDING the gait type and the profile
\* (periodHalf, amplitude) stay what they were.
C13_GaitFixedWhileWalking ==
  [][/\ \A g \in GaitInputs :
          setGait(g) =>
            IF legMode = "STANDING"
            THEN gaitType' = g /\ legMode' = "STANDING"
            ELSE UNCHANGED plannerVars
     /\ (legMode # "STANDING" /\ legMode' # "STANDING") =>
          /\ gaitType' = gaitType
          /\ PeriodHalf' = PeriodHalf
          /\ Amplitude' = Amplitude]_vars

\* A leg that was given the second gait while standing walks with it, and a
\* setGait asking for another gait has just been ignored.
C13_Witness ==
  /\ h_gaitRefused
  /\ gaitType = "GAIT_2"
  /\ legMode \in ArcPhases \cup DrawBackPhases
  /\ footXYDrop # 0

\* ------------------------------------------------------------------------
\* C14
\* ------------------------------------------------------------------------

\* A call of reset or init.
ResetCall == reset \/ (\E h \in Heights : init(h))

\* The accumulator moved by one increment, up in an arc phase and down in a
\* draw-back phase.
OneIncrement ==
  /\ legMode \in ArcPhases => footXYDrop' = footXYDrop + GAIT_POSITION_INCREMENT
  /\ legMode \in DrawBackPhases =>
       footXYDrop' = footXYDrop - GAIT_POSITION_INCREMENT

\* C14 as claimed: across a call other than reset/init the accumulator stays
\* or moves by one increment with the sign of the phase, and it moves only
\* when the call started outside STANDING.
C14_DropStepOnly ==
  [][~ResetCall =>
       \/ footXYDrop' = footXYDrop
       \/ legMode # "STANDING" /\ OneIncrement]_vars

\* C14: across a call other than reset/init the accumulator stays, or moves
\* by one increment with the sign of the phase in a recomputing update that
\* started outside STANDING, or is set to 0 by the update(WALKING) that takes
\* the leg out of STANDING.
C14_DropStepOrRestart ==
  [][~ResetCall =>
       \/ footXYDrop' = footXYDrop
       \/ Recompute /\ legMode # "STANDING" /\ OneIncrement
       \/ /\ update("WALKING")
          /\ legMode = "STANDING"
          /\ legMode' \in FirstStepPhases
          /\ footXYDrop' = 0]_vars

\* LEG_1 was stopped by the zero control vector with the accumulator at
\* periodHalf/2 (the cached z is still that of the arc's top) and was
\* started again: the accumulator is back at 0.
C14_Witness ==
  /\ legID = "LEG_1"
  /\ legMode = "FIRST_STEP_ARC"
  /\ footXYDrop = 0
  /\ dynamicFootPosition.z < robotHeight
  /\ h_lastControl = "zero"

\* ------------------------------------------------------------------------
\* C15
\* ------------------------------------------------------------------------

\* C15: the command unit published for a joint whose published angle is a
\* clamped one is DEGREES_TO_MICROS * degrees + 500 + the calibration offset
\* the constructor was given, with the whole angle and the whole offset.
C15_AffineEncoding ==
  constructed =>
    \A j \in 1..3 :
      Motor(j).dynamicDegrees \in JointRange(j) =>
        Motor(j).dynamicMicros =
          DEGREES_TO_MICROS * Motor(j).dynamicDegrees + 500
            + Motor(j).calibOffset

\* ------------------------------------------------------------------------
\* C16
\* ------------------------------------------------------------------------

\* C16: whatever the constructor, setFootEndpoint and
\* updateDynamicFootPosition are given, no call of _applyConstraints reaches
\* its halting branch.
C16_NeverHalts == ~halted

\* The solver went through the constructor, two setFootEndpoint calls and an
\* updateDynamicFootPosition that solved the position (0, 0, 0), and runs on.
C16_Witness ==
  /\ ~halted
  /\ moves = 2
  /\ h_solvedFor = <<0, 0, 0>>
  /\ h_encoded # {}

\* ------------------------------------------------------------------------
\* C17
\* ------------------------------------------------------------------------

\* The reach length solveFootPosition hands to solveFtShldrLength for the
\* position p (lines 142-146).
ReachFor(p) ==
  solveXMove(p[1], ToInt16(solveYMove(p[2], p[3]).yPlaneZOutput, int16NaN))
    .demandFtShldrLength

\* C17: for every position that was solved, the contributions of the
\* reach-length stage to the angles of joints 2 and 3 are those of the reach
\* length clamped to [SHOULDER_FOOT_MIN, SHOULDER_FOOT_MAX].
C17_ClampedReachUsed ==
  h_solvedFor # <<>> =>
    solveFtShldrLength(ReachFor(h_solvedFor), 0, 0)
      = solveFtShldrLength(ClampedReach(ReachFor(h_solvedFor)), 0, 0)

\* ------------------------------------------------------------------------
\* C18
\* ------------------------------------------------------------------------

Sign(v) == IF v > 0 THEN 1 ELSE IF v < 0 THEN -1 ELSE 0

\* The projected endpoint behind the _stepEndpoint a call left: the axis swap
\* and the flip of the draw-back phases undone.
Unswapped ==
  LET s == IF legMode \in DrawBackPhases THEN -1 ELSE 1
  IN [x |-> s * stepEndpoint'.y, y |-> s * stepEndpoint'.x]

\* C18: for every non-zero control vector the projected endpoint points the
\* way the control vector does: each component has the sign of the control
\* component (zero only where that is zero) and the components are in the
\* ratio controlY : controlX, to within one length unit.
C18_DirectionPreserved ==
  [][\A c \in Controls :
       (c # <<0, 0>> /\ setStepEndpoint(c[1], c[2])) =>
         /\ Sign(Unswapped.x) = Sign(c[1])
         /\ Sign(Unswapped.y) = Sign(c[2])
         /\ Abs(Unswapped.y * c[1] - Unswapped.x * c[2])
              <= FP * (Abs(c[1]) + Abs(c[2]))]_vars

\* ------------------------------------------------------------------------
\* C19
\* ------------------------------------------------------------------------

\* C19: two planners of different first-step groups, started together and
\* updated at the same clock values, hold opposite foot drops and
\* complementary phases: both stand, or one is in an arc phase and the other
\* in a draw-back phase.
C19_AntiPhase ==
  /\ peer.footXYDrop = -footXYDrop
  /\ legMode = "STANDING" <=> peer.legMode = "STANDING"
  /\ legMode \in ArcPhases <=> peer.legMode \in DrawBackPhases
  /\ legMode \in DrawBackPhases <=> peer.legMode \in ArcPhases

\* Past the first steps: the leg that started in the arc has drawn back
\* through 0 and turned into the arc of the next cycle while the other leg
\* turned into the draw-back, and the drops are one increment off the turn.
C19_Witness ==
  /\ legMode = "ACTIVE_WALKING_ARC"
  /\ peer.legMode = "ACTIVE_WALKING_DRAW_BACK"
  /\ 2 * footXYDrop = 2 * GAIT_POSITION_INCREMENT - PeriodHalf
  /\ peer.footXYDrop = -footXYDrop

\* ------------------------------------------------------------------------
\* C20
\* ------------------------------------------------------------------------

\* C20: with update called at every millisecond, a walking leg whose foot
\* drop stands at +-periodHalf/2 reached it, in the recomputing update of
\* clock value _previousUpdateTime + 1, exactly completionTime after the
\* update that left the drop at 0 (consecutive recomputing updates being
\* TIME_TO_UPDATE - 1 apart); and completionTime is the duration a non-zero
\* control vector gives both axis interpolators.
C20_TraversalMatchesCompletionTime ==
  /\ []((legMode # "STANDING" /\ 2 * Abs(footXYDrop) = PeriodHalf) =>
         (previousUpdateTime + 1) - sync.zeroAt = CompletionTime)
  /\ [][\A c \in Controls \ {<<0, 0>>} :
          setStepEndpoint(c[1], c[2]) =>
            (footPosX'.dur = CompletionTime /\ footPosY'.dur = CompletionTime)]_vars
  /\ [][(Recompute /\ legMode # "STANDING") =>
          now - (previousUpdateTime + 1) = TIME_TO_UPDATE - 1]_vars

\* A leg walking towards a non-zero endpoint has drawn back through 0 to the
\* lower turn.
C20_Witness ==
  /\ legMode = "ACTIVE_WALKING_ARC"
  /\ 2 * footXYDrop = -PeriodHalf
  /\ h_lastControl = "nonzero"
  /\ sync.calledAt = now
  /\ sync.zeroAt = now - CompletionTime

====
